---- MODULE Spec2Model ----
(***************************************************************************)
(* A model of package horcrux (horcrux.go): Split seals one secret share   *)
(* per security question under a key derived from the answer, Recover      *)
(* re-derives the keys, opens the shares and combines them.                *)
(*                                                                         *)
(* The three external primitives are modelled by their contracts:          *)
(*   sss     Shamir's secret sharing, here over the prime field GF(Prime)  *)
(*           (the library works over GF(2^8)); the polynomial coefficients *)
(*           are read from the random source;                              *)
(*   scrypt  a symbolic key: the tuple of everything it was derived from,  *)
(*           so two keys are equal exactly when all inputs are equal;      *)
(*   AEAD    a symbolic ciphertext that opens only under the sealing key   *)
(*           and nonce, and only when it has not been altered.             *)
(* The random source is a counter: a read returns the counter and advances *)
(* it, so the source never returns the same value twice.                   *)
(***************************************************************************)
EXTENDS Integers, Sequences, FiniteSets, TLC

VARIABLES
    rnd,        \* state of crypto/rand.Reader: the next value it returns
    nsplits,    \* number of Split calls made so far
    issued,     \* salt and nonce of every fragment any Split has returned
    repeated,   \* the last two Split calls had the same arguments and both succeeded
    call,       \* arguments of the last Split call, its map order and its shares
    sres,       \* what the last Split call returned
    ans,        \* argument of the last Recover call
    rres,       \* what the last Recover call returned, and the calls it made
    last,       \* "init", "split", "recover" or "string": the last operation
    strIn,      \* the Answer last formatted
    strOut      \* Fragment.String() and Answer.String() of strIn

vars == <<rnd, nsplits, issued, repeated, call, sres, ans, rres, last, strIn, strOut>>

----------------------------------------------------------------------------
(* Bounds of the model. *)

MaxQuestions == 3      \* questions a caller has to choose from
MaxSplits == 2         \* Split calls in one behaviour
MaxAnswers == 3        \* length of a crafted answer list

(* Program constants. *)

saltLen == 32
KeySize == 32
NonceSize == 8

(* The field of the secret sharing scheme. *)
Prime == 5

----------------------------------------------------------------------------
(* Errors.  Every error is a record of the same shape. *)

NoError == [kind |-> "nil", msg |-> "", need |-> 0, have |-> 0]

Err(kind, msg) == [kind |-> kind, msg |-> msg, need |-> 0, have |-> 0]

ErrInsufficient(need, have) ==
    [kind |-> "insufficient",
     msg  |-> "horcrux: need at least %d answers but only have %d",
     need |-> need, have |-> have]

ErrRand == Err("rand", "unexpected EOF")

(* A byte slice a function returns: nil, or the bytes. *)
NilBytes == [nil |-> TRUE, bytes |-> <<>>]

Bytes(b) == [nil |-> FALSE, bytes |-> b]

----------------------------------------------------------------------------
(* crypto/rand.Reader and io.ReadFull. *)

NoDraw == [id |-> -1, len |-> 0]

(* The readNo-th read of this call; the environment makes read failAt fail. *)
ReadFull(r, len, readNo, failAt) ==
    IF readNo = failAt
    THEN [err |-> ErrRand, buf |-> NoDraw, rnd |-> r]
    ELSE [err |-> NoError, buf |-> [id |-> r, len |-> len], rnd |-> r + 1]

----------------------------------------------------------------------------
(* scrypt.Key *)

RECURSIVE IsPow2(_)
IsPow2(n) == IF n <= 1 THEN n = 1 ELSE n % 2 = 0 /\ IsPow2(n \div 2)

NoKey == [pw |-> "", salt |-> NoDraw, N |-> 0, r |-> 0, p |-> 0, len |-> 0]

ScryptKey(password, salt, N, r, p, keyLen) ==
    IF N <= 1 \/ ~IsPow2(N)
    THEN [err |-> Err("scrypt", "scrypt: N must be > 1 and a power of 2"), key |-> NoKey]
    ELSE [err |-> NoError,
          key |-> [pw |-> password, salt |-> salt, N |-> N, r |-> r, p |-> p, len |-> keyLen]]

----------------------------------------------------------------------------
(* chacha20poly1305 *)

NewChaCha20Poly1305(key) ==
    IF key.len # KeySize THEN Err("cipher", "invalid key size") ELSE NoError

Seal(key, nonce, plaintext) ==
    [key |-> key, nonce |-> nonce, pt |-> plaintext, intact |-> TRUE]

NoValue == Seal(NoKey, NoDraw, <<>>)

Open(key, nonce, ct) ==
    IF ct.intact /\ ct.key = key /\ ct.nonce = nonce
    THEN [err |-> NoError, pt |-> ct.pt]
    ELSE [err |-> Err("auth", "message authentication failed"), pt |-> <<>>]

----------------------------------------------------------------------------
(* sss: arithmetic in GF(Prime). *)

RECURSIVE Pow(_, _)
Pow(a, e) == IF e = 0 THEN 1 ELSE (a * Pow(a, e - 1)) % Prime

Inv(a) == Pow(a % Prime, Prime - 2)

(* poly[1] + poly[2] x + ... at x *)
RECURSIVE PolyEval(_, _)
PolyEval(poly, x) ==
    IF poly = <<>> THEN 0 ELSE (poly[1] + x * PolyEval(Tail(poly), x)) % Prime

(* prod over j in X, j # i, of x_j / (x_j - x_i): the Lagrange basis of i at 0 *)
RECURSIVE Basis(_, _)
Basis(X, i) ==
    IF X = {} THEN 1
    ELSE LET j == CHOOSE y \in X : TRUE
             t == IF j = i THEN 1 ELSE ((j % Prime) * Inv(j - i)) % Prime
         IN (t * Basis(X \ {j}, i)) % Prime

RECURSIVE Lagrange(_, _)
Lagrange(ys, X) ==
    IF X = {} THEN 0
    ELSE LET i == CHOOSE y \in X : TRUE
         IN (ys[i] * Basis(DOMAIN ys, i) + Lagrange(ys, X \ {i})) % Prime

(* The value at 0 of the polynomial through the points (x, ys[x]). *)
Interpolate(ys) == Lagrange(ys, DOMAIN ys)

(* The field element made of the value the random source returns. *)
Coef(id) == (2 * id + 1) % Prime

(* sss.Split: the j-th byte is the constant term of a polynomial of degree  *)
(* k-1 whose other coefficients are read from the random source; share x   *)
(* holds each polynomial's value at x.                                     *)
SssSplit(n, k, secret, r) ==
    IF k <= 1 THEN [err |-> Err("sss", "K must be > 1"), shares |-> <<>>, rnd |-> r]
    ELSE IF n < k THEN [err |-> Err("sss", "N must be >= K"), shares |-> <<>>, rnd |-> r]
    ELSE LET poly(j) == <<secret[j]>> \o
                        [d \in 1..(k - 1) |-> Coef(r + (j - 1) * (k - 1) + d - 1)]
         IN [err    |-> NoError,
             shares |-> [x \in 1..n |-> [j \in 1..Len(secret) |-> PolyEval(poly(j), x)]],
             rnd    |-> r + Len(secret) * (k - 1)]

(* sss.Combine: interpolates every byte through all the shares it is given; *)
(* the length is that of a share of the map, nil for the empty map.         *)
SssCombine(shares) ==
    IF DOMAIN shares = {} THEN NilBytes
    ELSE LET first == shares[CHOOSE x \in DOMAIN shares : TRUE]
         IN Bytes([j \in 1..Len(first) |->
                      Interpolate([x \in DOMAIN shares |-> shares[x][j]])])

----------------------------------------------------------------------------
(* Fragment and Answer.  An Answer is a Fragment (its fields promoted) plus *)
(* the answer text.                                                        *)

(* The composite literal of Split: Nonce and Value are still zero. *)
NewFragmentZeroBased(n, r, p, i, k, salt, q) ==
    [ID |-> i - 1, K |-> k, N |-> n, R |-> r, P |-> p,
     Question |-> q, Nonce |-> NoDraw, Salt |-> salt, Value |-> NoValue]

NewFragment(n, r, p, i, k, salt, q) ==
    [ID |-> i, K |-> k, N |-> n, R |-> r, P |-> p,
     Question |-> q, Nonce |-> NoDraw, Salt |-> salt, Value |-> NoValue]

MakeAnswer(f, text) ==
    [ID |-> f.ID, K |-> f.K, N |-> f.N, R |-> f.R, P |-> f.P,
     Question |-> f.Question, Nonce |-> f.Nonce, Salt |-> f.Salt, Value |-> f.Value,
     Answer |-> text]

----------------------------------------------------------------------------
(* Split *)

(* return nil, err: f is the slice built so far, which is dropped. *)
SplitFailPartial(f, err, r, reads) ==
    [frags |-> f, nil |-> FALSE, err |-> err, rnd |-> r, reads |-> reads]

SplitFail(f, err, r, reads) ==
    [frags |-> <<>>, nil |-> TRUE, err |-> err, rnd |-> r, reads |-> reads]

(* frag.Nonce = make([]byte, chacha20.NonceSize); io.ReadFull(rand.Reader, frag.Nonce) *)
ReadNonceStale(r, readNo, failAt) ==
    IF readNo = failAt
    THEN [err |-> ErrRand, buf |-> NoDraw, rnd |-> r]
    ELSE [err |-> NoError, buf |-> [id |-> r - 1, len |-> NonceSize], rnd |-> r]

ReadNonce(r, readNo, failAt) == ReadFull(r, NonceSize, readNo, failAt)

(* The share sealed into the fragment numbered i. *)
ShareForNext(shares, i) == shares[(i % Len(shares)) + 1]

ShareFor(shares, i) == shares[i]

(* The loop over the question map, c.order being the order in which range  *)
(* yields its keys; i counts from 1, f is the slice built so far.          *)
RECURSIVE SplitLoop(_, _, _, _, _, _)
SplitLoop(c, shares, i, f, r, reads) ==
    IF i > Len(c.order)
    THEN [frags |-> f, nil |-> FALSE, err |-> NoError, rnd |-> r, reads |-> reads]
    ELSE
      LET q    == c.order[i]
          a    == c.questions[q]
          sr   == ReadFull(r, saltLen, reads + 1, c.failAt)
          frag == NewFragment(c.n, c.r, c.p, i, c.k, sr.buf, q)
          kd   == ScryptKey(a, sr.buf, frag.N, frag.R, frag.P, KeySize)
          nr   == ReadNonce(sr.rnd, reads + 2, c.failAt)
          ae   == NewChaCha20Poly1305(kd.key)
          done == [frag EXCEPT !.Nonce = nr.buf,
                               !.Value = Seal(kd.key, nr.buf, ShareFor(shares, i))]
      IN IF sr.err # NoError THEN SplitFail(f, sr.err, sr.rnd, reads + 1)
         ELSE IF kd.err # NoError THEN SplitFail(f, kd.err, sr.rnd, reads + 1)
         ELSE IF nr.err # NoError THEN SplitFail(f, nr.err, nr.rnd, reads + 2)
         ELSE IF ae # NoError THEN SplitFail(f, ae, nr.rnd, reads + 2)
         ELSE SplitLoop(c, shares, i + 1, Append(f, done), nr.rnd, reads + 2)

(* Split(secret, questions, k, n, r, p), with the environment's part of the *)
(* call in c as well: the map order and the read that fails (0: none).     *)
SplitRun(c, r0) ==
    LET s == SssSplit(Cardinality(DOMAIN c.questions), c.k, c.secret, r0)
    IN IF s.err # NoError
       THEN SplitFail(<<>>, s.err, s.rnd, 0)
       ELSE SplitLoop(c, s.shares, 1, <<>>, s.rnd, 0)

----------------------------------------------------------------------------
(* Recover *)

(* return nil, err *)
RecoverFail(err, tr) == [secret |-> NilBytes, err |-> err, trace |-> tr]

(* if a.K > len(answers) *)
ThresholdExceededOffByOne(a, answers) == a.K > Len(answers) + 1

ThresholdExceeded(a, answers) == a.K > Len(answers)

(* v, err := aead.Open(nil, a.Nonce, a.Value, nil) *)
OpenShareUnchecked(key, a) ==
    [err |-> NoError, pt |-> Open(key, a.Nonce, a.Value).pt]

OpenShare(key, a) == Open(key, a.Nonce, a.Value)

(* shares[a.ID] = v *)
StoreShareByPosition(shares, a, v) ==
    LET i == Cardinality(DOMAIN shares) + 1
    IN [x \in DOMAIN shares \cup {i} |-> IF x = i THEN v ELSE shares[x]]

StoreShare(shares, a, v) ==
    [x \in DOMAIN shares \cup {a.ID} |-> IF x = a.ID THEN v ELSE shares[x]]

(* return sss.Combine(shares), nil *)
FinishCounted(shares, answers, tr) ==
    IF \E i \in 1..Len(answers) : Cardinality(DOMAIN shares) < answers[i].K
    THEN RecoverFail(ErrInsufficient(answers[1].K, Cardinality(DOMAIN shares)), tr)
    ELSE [secret |-> SssCombine(shares), err |-> NoError,
          trace  |-> [tr EXCEPT !.combine = Append(@, shares)]]

Finish(shares, answers, tr) ==
    [secret |-> SssCombine(shares), err |-> NoError,
     trace  |-> [tr EXCEPT !.combine = Append(@, shares)]]

NoTrace == [kdf |-> <<>>, open |-> <<>>, combine |-> <<>>]

(* The loop over answers; tr records the positions whose key was derived,  *)
(* the positions whose ciphertext was handed to Open, and the maps handed  *)
(* to sss.Combine.                                                         *)
RECURSIVE RecoverLoop(_, _, _, _)
RecoverLoop(answers, i, shares, tr) ==
    IF i > Len(answers) THEN Finish(shares, answers, tr)
    ELSE
      LET a   == answers[i]
          kd  == ScryptKey(a.Answer, a.Salt, a.N, a.R, a.P, KeySize)
          tr1 == [tr EXCEPT !.kdf = Append(@, i)]
          ae  == NewChaCha20Poly1305(kd.key)
          op  == OpenShare(kd.key, a)
          tr2 == [tr1 EXCEPT !.open = Append(@, i)]
      IN IF ThresholdExceeded(a, answers)
         THEN RecoverFail(ErrInsufficient(a.K, Len(answers)), tr)
         ELSE IF kd.err # NoError THEN RecoverFail(kd.err, tr1)
         ELSE IF ae # NoError THEN RecoverFail(ae, tr1)
         ELSE IF op.err # NoError THEN RecoverFail(op.err, tr2)
         ELSE RecoverLoop(answers, i + 1, StoreShare(shares, a, op.pt), tr2)

RecoverRun(answers) == RecoverLoop(answers, 1, <<>>, NoTrace)

----------------------------------------------------------------------------
(* Textual form.  A string is a sequence of characters. *)

Digits == <<"0", "1", "2", "3", "4", "5", "6", "7", "8", "9">>

HexDigits == Digits \o <<"a", "b", "c", "d", "e", "f">>

(* %d *)
RECURSIVE Dec(_)
Dec(n) ==
    IF n < 0 THEN <<"-">> \o Dec(-n)
    ELSE IF n < 10 THEN <<Digits[n + 1]>>
    ELSE Dec(n \div 10) \o <<Digits[(n % 10) + 1]>>

(* %x of a byte slice *)
RECURSIVE HexBytes(_)
HexBytes(b) ==
    IF b = <<>> THEN <<>>
    ELSE <<HexDigits[(b[1] \div 16) + 1], HexDigits[(b[1] % 16) + 1]>> \o HexBytes(Tail(b))

(* One verb applied to one argument; %v of a Stringer is its String(),    *)
(* which the caller passes already evaluated.                             *)
FormatVerb(verb, arg) ==
    CASE verb = "d" -> Dec(arg)
      [] verb = "x" -> HexBytes(arg)
      [] verb = "s" -> arg
      [] verb = "v" -> arg

(* fmt.Sprintf for the verbs above. *)
RECURSIVE Sprintf(_, _)
Sprintf(format, args) ==
    IF format = <<>> THEN <<>>
    ELSE IF format[1] = "%"
    THEN FormatVerb(format[2], args[1]) \o Sprintf(SubSeq(format, 3, Len(format)), Tail(args))
    ELSE <<format[1]>> \o Sprintf(Tail(format), args)

(* "%d/%d:%s:%d:%d:%d:%x:%x" *)
FragmentFormat ==
    <<"%", "d", "/", "%", "d", ":", "%", "s", ":", "%", "d", ":", "%", "d", ":",
      "%", "d", ":", "%", "x", ":", "%", "x">>

(* "%v:%s" *)
AnswerFormat == <<"%", "v", ":", "%", "s">>

FragmentStringNonce(f) ==
    Sprintf(FragmentFormat, <<f.ID, f.K, f.Question, f.N, f.R, f.P, f.Nonce, f.Value>>)

FragmentString(f) ==
    Sprintf(FragmentFormat, <<f.ID, f.K, f.Question, f.N, f.R, f.P, f.Salt, f.Value>>)

AnswerString(a) == Sprintf(AnswerFormat, <<FragmentString(a), a.Answer>>)

----------------------------------------------------------------------------
(* What the callers pass. *)

QuestionIds == 1..MaxQuestions

(* The user's answer to each question; two questions may share an answer. *)
AnswerText(q) == IF q % 2 = 1 THEN "Spot" ELSE "broccoli"

QuestionMaps == {[q \in S |-> AnswerText(q)] : S \in SUBSET QuestionIds}

Secrets == {<<>>, <<3>>, <<1, 4>>}

ScryptParams == {[n |-> 2048, r |-> 8, p |-> 1], [n |-> 7, r |-> 8, p |-> 1]}

Seeds == {0, 2, 3}

(* Arguments of Split: any secret, question map, threshold and parameters. *)
SplitArgs ==
    {[secret |-> s, questions |-> m, k |-> k, n |-> sp.n, r |-> sp.r, p |-> sp.p] :
        s \in Secrets, m \in QuestionMaps, k \in 1..MaxQuestions, sp \in ScryptParams}

(* Arguments of the Split whose fragments the crafted answers are made of. *)
FixedArgs ==
    {[secret |-> <<3, 1>>, questions |-> [q \in {1, 2, 3} |-> AnswerText(q)],
      k |-> k, n |-> 2048, r |-> 8, p |-> 1] : k \in {2, 3}}

Injections(m, n) == {f \in [1..m -> 1..n] : \A i, j \in 1..m : i # j => f[i] # f[j]}

(* The orders in which range may yield the keys of a map. *)
Orders(questions) ==
    LET D == DOMAIN questions
        n == Cardinality(D)
    IN {o \in [1..n -> D] : \A i, j \in 1..n : i # j => o[i] # o[j]}

RECURSIVE Ascending(_)
Ascending(S) ==
    IF S = {} THEN <<>>
    ELSE LET m == CHOOSE x \in S : \A y \in S : x <= y IN <<m>> \o Ascending(S \ {m})

(* Answers as the example and the tests build them: some of the fragments, *)
(* each once, in any order, each with the answer of its question.          *)
HonestLists ==
    {[i \in DOMAIN sel |-> MakeAnswer(sres.frags[sel[i]], call.questions[sres.frags[sel[i]].Question])] :
        sel \in UNION {Injections(m, Len(sres.frags)) : m \in 0..Len(sres.frags)}}

Variants == {"ok", "text", "salt", "nonce", "value", "kup", "id"}

Altered(draw) == [draw EXCEPT !.id = -2 - draw.id]

(* An Answer a caller makes of fragment f: with the right answer, with a   *)
(* wrong one, or with one field of the fragment changed.                   *)
Craft(f, variant) ==
    LET a == MakeAnswer(f, call.questions[f.Question])
    IN CASE variant = "ok"    -> a
         [] variant = "text"  -> [a EXCEPT !.Answer = a.Answer \o "woo"]
         [] variant = "salt"  -> [a EXCEPT !.Salt = Altered(a.Salt)]
         [] variant = "nonce" -> [a EXCEPT !.Nonce = Altered(a.Nonce)]
         [] variant = "value" -> [a EXCEPT !.Value.intact = FALSE]
         [] variant = "kup"   -> [a EXCEPT !.K = a.K + 1]
         [] variant = "id"    -> [a EXCEPT !.ID = (a.ID % Len(sres.frags)) + 1]

(* Lists of up to MaxAnswers answers: any fragment with its right answer,  *)
(* and the first fragment crafted in every way.                           *)
CraftedLists ==
    LET E == {Craft(sres.frags[i], "ok") : i \in 1..Len(sres.frags)} \cup
             {Craft(sres.frags[i], v) : i \in 1..Len(sres.frags) \cap {1}, v \in Variants}
    IN UNION {[1..m -> E] : m \in 0..MaxAnswers}

Chars == {<<>>, <<"Q">>, <<"a", ":", "b">>}

(* Answers with byte-valued fields, for the textual form. *)
PrintedAnswers ==
    [ID : {1, 27}, K : {5}, N : {2, 2048}, R : {3}, P : {4}, Question : Chars,
     Nonce : {<<10>>, <<0, 255>>}, Salt : {<<>>, <<11>>, <<171, 9>>},
     Value : {<<12>>, <<255, 16>>}, Answer : {<<>>, <<"A">>}]

----------------------------------------------------------------------------
(* The state machine. *)

NoCall ==
    [secret |-> <<>>, questions |-> <<>>, k |-> 0, n |-> 0, r |-> 0, p |-> 0,
     order |-> <<>>, failAt |-> 0, shares |-> <<>>]

NoPrinted ==
    [ID |-> 0, K |-> 0, N |-> 0, R |-> 0, P |-> 0, Question |-> <<>>,
     Nonce |-> <<>>, Salt |-> <<>>, Value |-> <<>>, Answer |-> <<>>]

Pristine ==
    /\ nsplits = 0
    /\ issued = {}
    /\ repeated = FALSE
    /\ call = NoCall
    /\ sres = [frags |-> <<>>, nil |-> TRUE, err |-> NoError, reads |-> 0]
    /\ ans = <<>>
    /\ rres = [secret |-> NilBytes, err |-> NoError, trace |-> NoTrace]
    /\ last = "init"
    /\ strIn = NoPrinted
    /\ strOut = [fragment |-> <<>>, answer |-> <<>>]

Init == rnd \in Seeds /\ Pristine

InitZero == rnd = 0 /\ Pristine

SameArgs(c, d) ==
    /\ c.secret = d.secret /\ c.questions = d.questions
    /\ c.k = d.k /\ c.n = d.n /\ c.r = d.r /\ c.p = d.p

(* One call of Split.  The environment chooses the order of the map and    *)
(* the read of the random source that fails, if it is reached (quiet:      *)
(* ascending order, no failure).  call keeps the keys range has yielded.   *)
SplitCall(Args, limit, quiet) ==
    /\ nsplits < limit
    /\ \E a \in Args :
       \E order \in IF quiet THEN {Ascending(DOMAIN a.questions)} ELSE Orders(a.questions) :
       \E failAt \in IF quiet THEN {0} ELSE 0..(2 * Len(order)) :
          LET c   == [secret |-> a.secret, questions |-> a.questions, k |-> a.k,
                      n |-> a.n, r |-> a.r, p |-> a.p, order |-> order, failAt |-> failAt]
              s   == SssSplit(Cardinality(DOMAIN a.questions), a.k, a.secret, rnd)
              res == SplitRun(c, rnd)
          IN /\ rnd' = res.rnd
             /\ nsplits' = nsplits + 1
             /\ sres' = [frags |-> res.frags, nil |-> res.nil, err |-> res.err,
                         reads |-> res.reads]
             /\ call' = [secret |-> a.secret, questions |-> a.questions, k |-> a.k,
                         n |-> a.n, r |-> a.r, p |-> a.p,
                         order  |-> SubSeq(order, 1, (res.reads + 1) \div 2),
                         failAt |-> failAt,
                         shares |-> s.shares]
             /\ issued' = issued \cup
                    {[call |-> nsplits + 1, id |-> res.frags[i].ID,
                      salt |-> res.frags[i].Salt, nonce |-> res.frags[i].Nonce] :
                        i \in 1..Len(res.frags)}
             /\ repeated' = (nsplits > 0 /\ sres.err = NoError /\ res.err = NoError
                             /\ SameArgs(call, a))
             /\ last' = "split"
             /\ UNCHANGED <<ans, rres, strIn, strOut>>

(* One call of Recover, on answers made of what the last Split returned. *)
RecoverCall(Lists) ==
    \E l \in Lists :
        /\ last = "split"
        /\ ans' = l
        /\ rres' = RecoverRun(l)
        /\ last' = "recover"
        /\ UNCHANGED <<rnd, nsplits, issued, repeated, call, sres, strIn, strOut>>

(* String() of a Fragment and of the Answer that embeds it. *)
StringCall ==
    \E a \in PrintedAnswers :
        /\ strIn' = a
        /\ strOut' = [fragment |-> FragmentString(a), answer |-> AnswerString(a)]
        /\ last' = "string"
        /\ UNCHANGED <<rnd, nsplits, issued, repeated, call, sres, ans, rres>>

(* A caller that splits once and recovers from honest answers. *)
Split == SplitCall(SplitArgs, 1, FALSE)

Recover == RecoverCall(HonestLists)

Next == Split \/ Recover

Spec == Init /\ [][Next]_vars

(* A caller that splits again and again. *)
SplitAgain == SplitCall(FixedArgs, MaxSplits, FALSE)

NextRepeat == SplitAgain

SpecRepeat == InitZero /\ [][NextRepeat]_vars

(* A caller that splits once and recovers from crafted answers. *)
SplitFixed == SplitCall(FixedArgs, 1, TRUE)

RecoverCrafted == RecoverCall(CraftedLists)

NextCrafted == SplitFixed \/ RecoverCrafted

SpecCrafted == InitZero /\ [][NextCrafted]_vars

(* The textual forms. *)
NextString == StringCall

SpecString == InitZero /\ [][NextString]_vars

----------------------------------------------------------------------------
(* Properties. *)

Recovered == last = "recover"

SplitDone == nsplits > 0

SplitOk == SplitDone /\ sres.err = NoError

NumQuestions == Cardinality(DOMAIN call.questions)

(* Answer a is one of the fragments returned, with the answer of its question. *)
IsHonest(a) ==
    \E j \in 1..Len(sres.frags) :
        a = MakeAnswer(sres.frags[j], call.questions[sres.frags[j].Question])

DistinctIds(l) == \A i, j \in 1..Len(l) : i # j => l[i].ID # l[j].ID

(* The fragment answer a was made of: the one with its ID, K, parameters and question. *)
SourceOf(a) ==
    {j \in 1..Len(sres.frags) :
        /\ sres.frags[j].ID = a.ID /\ sres.frags[j].K = a.K
        /\ sres.frags[j].N = a.N /\ sres.frags[j].R = a.R /\ sres.frags[j].P = a.P
        /\ sres.frags[j].Question = a.Question}

(* The answer text is not the one split with, or salt, nonce or ciphertext were altered. *)
IsBad(a) ==
    \E j \in SourceOf(a) :
        \/ a.Answer # call.questions[a.Question]
        \/ a.Salt # sres.frags[j].Salt
        \/ a.Nonce # sres.frags[j].Nonce
        \/ a.Value # sres.frags[j].Value

(* The ciphertext of a was sealed, and not altered since, under the key of *)
(* a's answer text, salt and parameters and under a's nonce.               *)
Decrypts(a) ==
    /\ a.Value.intact
    /\ a.Value.nonce = a.Nonce
    /\ a.Value.key.pw = a.Answer /\ a.Value.key.salt = a.Salt
    /\ a.Value.key.N = a.N /\ a.Value.key.r = a.R /\ a.Value.key.p = a.P

Upto(n) == [i \in 1..n |-> i]

(* C1: round trip.  Recover on any K of the fragments of a successful      *)
(* Split with threshold K, each with the answer text split with, returns   *)
(* the secret split and no error.                                          *)
C1_RoundTrip ==
    (/\ Recovered /\ SplitOk
     /\ Len(ans) = call.k
     /\ DistinctIds(ans)
     /\ \A i \in 1..Len(ans) : IsHonest(ans[i]))
    => /\ rres.err = NoError
       /\ ~rres.secret.nil
       /\ rres.secret.bytes = call.secret

C1_Witness ==
    /\ Recovered /\ SplitOk
    /\ call.k = 3 /\ Len(ans) = 3 /\ DistinctIds(ans)
    /\ ans[1].ID = 3
    /\ call.secret = <<1, 4>>
    /\ rres.err = NoError /\ rres.secret.bytes = <<1, 4>>

C3_WrongAnswer ==
    (/\ Recovered /\ SplitOk
     /\ Len(ans) >= call.k
     /\ \A i \in 1..Len(ans) : SourceOf(ans[i]) # {}
     /\ \E i \in 1..Len(ans) : IsBad(ans[i]))
    => LET firstBad == CHOOSE i \in 1..Len(ans) :
                           IsBad(ans[i]) /\ \A j \in 1..(i - 1) : ~IsBad(ans[j])
       IN /\ rres.err = Err("auth", "message authentication failed")
          /\ rres.secret = NilBytes
          /\ rres.trace.combine = <<>>
          /\ rres.trace.kdf = Upto(firstBad)
          /\ rres.trace.open = Upto(firstBad)

C3_Witness ==
    /\ Recovered /\ SplitOk
    /\ call.k = 3 /\ Len(ans) = 3
    /\ \A i \in 1..Len(ans) : SourceOf(ans[i]) # {}
    /\ ~IsBad(ans[1]) /\ IsBad(ans[2]) /\ ~IsBad(ans[3])
    /\ ~ans[2].Value.intact
    /\ rres.err.kind = "auth" /\ rres.secret.nil

(* C4 as claimed: when some answer of the list, at any position, has       *)
(* K > len(answers), Recover returns the insufficient-answers error with   *)
(* that K and the length, before any key is derived or any ciphertext      *)
(* opened.                                                                 *)
C4_FailFast ==
    (Recovered /\ \E i \in 1..Len(ans) : ans[i].K > Len(ans))
    => /\ rres.err.kind = "insufficient"
       /\ rres.err.have = Len(ans)
       /\ \E i \in 1..Len(ans) : ans[i].K > Len(ans) /\ rres.err.need = ans[i].K
       /\ rres.trace.kdf = <<>> /\ rres.trace.open = <<>>

(* The error of the step of Split that fails first, NoError when none does. *)
ExpectedSplitError ==
    IF call.k <= 1 THEN Err("sss", "K must be > 1")
    ELSE IF call.k > NumQuestions THEN Err("sss", "N must be >= K")
    ELSE IF call.failAt = 1 THEN ErrRand
    ELSE IF call.n <= 1 \/ ~IsPow2(call.n)
         THEN Err("scrypt", "scrypt: N must be > 1 and a power of 2")
    ELSE IF call.failAt \in 2..(2 * NumQuestions) THEN ErrRand
    ELSE NoError

(* C5: Split is all or nothing.  When a step fails Split returns a nil     *)
(* slice and that step's error; otherwise one fragment per question.       *)
C5_AllOrNothing ==
    SplitDone =>
        /\ sres.err = ExpectedSplitError
        /\ sres.err # NoError => sres.nil /\ sres.frags = <<>>
        /\ sres.err = NoError => ~sres.nil /\ Len(sres.frags) = NumQuestions

C5_Witness ==
    /\ SplitDone
    /\ NumQuestions = 3 /\ call.failAt = 4 /\ sres.reads = 4
    /\ sres.err = ErrRand
    /\ sres.nil /\ sres.frags = <<>>

(* C6: salt and nonce freshness.  Every fragment's salt and nonce are two  *)
(* reads of the random source, of 32 bytes and of the nonce size; over all *)
(* the fragments of all the Splits no two salts are equal, no two nonces   *)
(* are equal, and no read is used for a salt and a nonce.                  *)
C6_Fresh ==
    /\ \A a, b \in issued :
         /\ a # b => a.salt # b.salt /\ a.nonce # b.nonce
         /\ a.salt.id # b.nonce.id
    /\ \A a \in issued : a.salt.len = saltLen /\ a.nonce.len = NonceSize
    /\ SplitOk => sres.reads = 2 * Len(sres.frags)

C6_Witness ==
    /\ nsplits = 2 /\ repeated
    /\ Cardinality({a \in issued : a.call = 1}) = 3
    /\ Cardinality({a \in issued : a.call = 2}) = 3

(* C8: fragment identity.  After a successful Split over n questions the   *)
(* i-th fragment has ID i, the caller's K, N, R and P, the i-th question   *)
(* range yielded, and seals shares[i] under the key of that question's     *)
(* answer and its own salt, with its own nonce.                            *)
C8_Identity ==
    SplitOk =>
        /\ Len(sres.frags) = NumQuestions
        /\ {sres.frags[i].ID : i \in 1..Len(sres.frags)} = 1..NumQuestions
        /\ \A i \in 1..Len(sres.frags) :
             LET f == sres.frags[i]
             IN /\ f.ID = i
                /\ f.K = call.k /\ f.N = call.n /\ f.R = call.r /\ f.P = call.p
                /\ f.Question = call.order[i]
                /\ f.Value.intact
                /\ f.Value.pt = call.shares[f.ID]
                /\ f.Value.nonce = f.Nonce
                /\ f.Value.key = [pw |-> call.questions[f.Question], salt |-> f.Salt,
                                  N |-> call.n, r |-> call.r, p |-> call.p, len |-> KeySize]

C8_Witness ==
    /\ SplitOk /\ last = "split"
    /\ NumQuestions = 3 /\ call.k = 2
    /\ call.order = <<3, 1, 2>>
    /\ sres.frags[1].Question = 3 /\ sres.frags[1].ID = 1
    /\ call.shares[1] # call.shares[2]

(* The last position of list l whose answer has this ID. *)
LastWith(l, id) ==
    CHOOSE i \in 1..Len(l) : l[i].ID = id /\ \A j \in (i + 1)..Len(l) : l[j].ID # id

(* C9: duplicate IDs.  When every answer passes the threshold check and    *)
(* decrypts, Recover calls the combine primitive once, with the share of   *)
(* the last answer of each ID under that ID, and returns its result with   *)
(* no error, whatever the number of distinct IDs.                          *)
C9_Duplicates ==
    (/\ Recovered
     /\ \A i \in 1..Len(ans) : ans[i].K <= Len(ans) /\ Decrypts(ans[i]))
    => LET ids == {ans[i].ID : i \in 1..Len(ans)}
           m   == [id \in ids |-> ans[LastWith(ans, id)].Value.pt]
       IN /\ rres.err = NoError
          /\ rres.trace.combine = <<m>>
          /\ rres.secret = SssCombine(m)

C9_Witness ==
    /\ Recovered /\ Len(ans) = 2
    /\ \A i \in 1..Len(ans) : ans[i].K = 2 /\ Decrypts(ans[i])
    /\ ans[1].ID = ans[2].ID
    /\ ans[1].Value.pt # ans[2].Value.pt
    /\ rres.err = NoError
    /\ rres.trace.combine = <<[id \in {ans[2].ID} |-> ans[2].Value.pt]>>

(* C10: order independence.  For answers with pairwise distinct IDs,       *)
(* Recover succeeds on every reordering of the list or on none, and        *)
(* returns the same secret on every reordering.                            *)
C10_OrderIndependent ==
    (Recovered /\ DistinctIds(ans))
    => \A perm \in Injections(Len(ans), Len(ans)) :
         LET r == RecoverRun([i \in 1..Len(ans) |-> ans[perm[i]]])
         IN /\ (r.err = NoError) = (rres.err = NoError)
            /\ r.err = NoError => r.secret = rres.secret

C10_Witness ==
    /\ Recovered /\ Len(ans) = 3 /\ DistinctIds(ans)
    /\ ans[1].ID = 2
    /\ rres.err = NoError /\ rres.secret.bytes = call.secret

(* "1/5:Q:2:3:4:0b:0c" and the fragment it is the form of. *)
TestFragmentText ==
    <<"1", "/", "5", ":", "Q", ":", "2", ":", "3", ":", "4", ":", "0", "b", ":", "0", "c">>

IsTestFragment(f) ==
    /\ f.ID = 1 /\ f.K = 5 /\ f.N = 2 /\ f.R = 3 /\ f.P = 4
    /\ f.Question = <<"Q">> /\ f.Salt = <<11>> /\ f.Value = <<12>>

(* C7: textual form.  Fragment.String() is ID/K:Question:N:R:P:hex(Salt):  *)
(* hex(Value), Answer.String() is that, a colon and the answer text, and   *)
(* the nonce does not change either.                                      *)
C7_TextualForm ==
    last = "string" =>
        LET f == strIn
            colon == <<":">>
            text == Dec(f.ID) \o <<"/">> \o Dec(f.K) \o colon \o f.Question \o colon
                    \o Dec(f.N) \o colon \o Dec(f.R) \o colon \o Dec(f.P) \o colon
                    \o HexBytes(f.Salt) \o colon \o HexBytes(f.Value)
        IN /\ strOut.fragment = text
           /\ strOut.answer = text \o colon \o f.Answer
           /\ IsTestFragment(f) => strOut.fragment = TestFragmentText
           /\ \A n \in {<<>>, <<10>>, <<0, 255>>, <<11>>} :
                /\ FragmentString([f EXCEPT !.Nonce = n]) = strOut.fragment
                /\ AnswerString([f EXCEPT !.Nonce = n]) = strOut.answer

C7_Witness ==
    /\ last = "string"
    /\ IsTestFragment(strIn) /\ strIn.Nonce = <<10>> /\ strIn.Answer = <<"A">>
    /\ strOut.fragment = TestFragmentText
    /\ strOut.answer = TestFragmentText \o <<":", "A">>

====
